---------------------------- MODULE Spec2Model ----------------------------
(***************************************************************************)
(* Model of src/main.rs: the Bevy systems time_progress (run / pause /     *)
(* step-forward controller) and update_balls (per-frame integration, rest  *)
(* detection, universe despawn and window bounce of the Ball components).  *)
(*                                                                         *)
(* Numbers.  Every f32 of the program is an IEEE-754 binary32 value, held  *)
(* as the integer  sign * (exponent field * 2^23 + fraction field),  so    *)
(* that the order of two numbers is the order of their integers.  Inf is   *)
(* the infinity, NaN the one not-a-number.  Add, Mul, Div and Sqrt give    *)
(* the correctly rounded result (to nearest, ties to even), subnormals,    *)
(* overflow to infinity and NaN included.  -0.0 and 0.0 are one value, 0:  *)
(* the program compares them equal, and divides only by constants, by a    *)
(* length or a square (never -0.0) and by ball.mass, where the dividend is *)
(* then a zero or a NaN too and the quotient NaN for either sign.          *)
(***************************************************************************)
EXTENDS Integers, FiniteSets, Sequences, TLC

VARIABLES
    balls,          \* Entity -> Ball component, for the entities that exist
    transforms,     \* Entity -> Transform.translation, same domain as balls
    game_state,     \* the GameState resource
    time_progress,  \* the TimeProgress resource
    order,          \* the entities in the order the Query balls iterates them
    delta,          \* Time::delta_seconds() of the current frame
    ran,            \* the steps of the Update schedule already taken in the current frame
    other_balls,    \* update_balls: the copy of all Ball components taken at its start
    copied,         \* history: the entities whose components other_balls holds, in its order
    todo,           \* update_balls: entities the query loop has not visited yet
    commands,       \* update_balls: entities queued for despawn (Commands)
    iterating,      \* update_balls: TRUE while inside the query loop
    step            \* history: the last clean step-forward request, for the controller claims

vars == << balls, transforms, order, game_state, time_progress, delta, ran,
           other_balls, copied, todo, commands, iterating, step >>

---------------------------------------------------------------------------
(* f32 arithmetic                                                          *)

Two23 == 8388608
Two24 == 16777216
Inf == 2139095040
NaN == 2143289344

Abs(n) == IF n < 0 THEN -n ELSE n
Max(a, b) == IF a >= b THEN a ELSE b
Num(a) == a # NaN
Sign(a) == IF a < 0 THEN -1 ELSE 1

\* the number of binary digits of n, 0 <= n < 2^31
Bits2(n) == IF n >= 2 THEN 2 ELSE n
Bits4(n) == IF n >= 4 THEN 2 + Bits2(n \div 4) ELSE Bits2(n)
Bits8(n) == IF n >= 16 THEN 4 + Bits4(n \div 16) ELSE Bits4(n)
Bits16(n) == IF n >= 256 THEN 8 + Bits8(n \div 256) ELSE Bits8(n)
Bits(n) == IF n >= 65536 THEN 16 + Bits16(n \div 65536) ELSE Bits16(n)

\* exponent (1 for a subnormal) and significand (with the hidden bit) of a finite a
Exp(a) == IF Abs(a) < Two23 THEN 1 ELSE Abs(a) \div Two23
Sig(a) == IF Abs(a) < Two23 THEN Abs(a) ELSE Two23 + (Abs(a) % Two23)
\* the same with the significand of a # 0 brought to 24 digits
NormExp(a) == Exp(a) - (24 - Bits(Sig(a)))
NormSig(a) == Sig(a) * 2^(24 - Bits(Sig(a)))

\* significand m < 2^24 at exponent e >= 1, a carry out of m included
Pack(m, e) ==
    IF e >= 255 THEN Inf
    ELSE IF (e - 1) * Two23 + m >= Inf THEN Inf
    ELSE (e - 1) * Two23 + m

\* round to nearest, ties to even: quotient q, remainder r of a division by 2 * half
RoundedQuot(q, r, half, sticky) ==
    IF r > half \/ (r = half /\ (sticky \/ (q % 2) = 1)) THEN q + 1 ELSE q

RoundTo(sig, exp, sticky, shift) ==
    IF shift <= 0 THEN Pack(sig * 2^(-shift), exp + shift)
    ELSE IF shift >= 32 THEN 0
    ELSE IF shift = 31
    THEN Pack(RoundedQuot(0, sig, 1073741824, sticky), exp + shift)
    ELSE Pack(RoundedQuot(sig \div (2^shift), sig % (2^shift), 2^(shift - 1), sticky),
              exp + shift)

\* The f32 nearest to sign * (sig + s) * 2^(exp - 150), with 0 <= sig < 2^31 and
\* 0 < s < 1 if sticky, s = 0 if not.
Round(sign, sig, exp, sticky) ==
    IF sig = 0 THEN 0
    ELSE sign * RoundTo(sig, exp, sticky, Max(Bits(sig) - 24, 1 - exp))

FromInt(n) == Round(Sign(n), Abs(n), 150, FALSE)

Neg(a) == IF Num(a) THEN -a ELSE NaN

\* comparisons: false when an operand is NaN
Lt(a, b) == Num(a) /\ Num(b) /\ a < b
Gt(a, b) == Num(a) /\ Num(b) /\ a > b
Eq(a, b) == Num(a) /\ Num(b) /\ a = b

AddParts(sign, big, exp, same, low, sticky) ==
    Round(sign,
          IF same THEN big + low ELSE big - low - (IF sticky THEN 1 ELSE 0),
          exp - 6, sticky)
AddAligned(sign, big, exp, same, small, d) ==
    IF d >= 31 THEN AddParts(sign, big, exp, same, 0, TRUE)
    ELSE AddParts(sign, big, exp, same, small \div (2^d), (small % (2^d)) # 0)
\* |a| >= |b| > 0, both finite
AddOrdered(a, b) ==
    AddAligned(Sign(a), Sig(a) * 64, Exp(a), Sign(a) = Sign(b), Sig(b) * 64,
               Exp(a) - Exp(b))
Add(a, b) ==
    IF ~Num(a) \/ ~Num(b) THEN NaN
    ELSE IF Abs(a) = Inf THEN (IF Abs(b) = Inf /\ a # b THEN NaN ELSE a)
    ELSE IF Abs(b) = Inf THEN b
    ELSE IF a = 0 THEN b
    ELSE IF b = 0 THEN a
    ELSE IF Abs(a) >= Abs(b) THEN AddOrdered(a, b)
    ELSE AddOrdered(b, a)
Sub(a, b) == Add(a, Neg(b))

MulWords(sign, exp, hi, losum) ==
    Round(sign, (hi + (losum \div Two24)) * 64 + ((losum % Two24) \div 262144), exp,
          (losum % 262144) # 0)
MulMid(sign, exp, hh, mid, ll) ==
    MulWords(sign, exp, hh + (mid \div 4096), (mid % 4096) * 4096 + ll)
MulSig(sign, x, y, exp) ==
    MulMid(sign, exp, (x \div 4096) * (y \div 4096),
           (x \div 4096) * (y % 4096) + (x % 4096) * (y \div 4096),
           (x % 4096) * (y % 4096))
Mul(a, b) ==
    IF ~Num(a) \/ ~Num(b) THEN NaN
    ELSE IF Abs(a) = Inf \/ Abs(b) = Inf
    THEN (IF a = 0 \/ b = 0 THEN NaN ELSE Sign(a) * Sign(b) * Inf)
    ELSE IF a = 0 \/ b = 0 THEN 0
    ELSE MulSig(Sign(a) * Sign(b), NormSig(a), NormSig(b), NormExp(a) + NormExp(b) - 132)

RECURSIVE DivFrom(_, _, _, _, _, _)
DivFrom(sign, exp, d, q, rem, n) ==
    IF n = 0 THEN Round(sign, q, exp, rem # 0)
    ELSE DivFrom(sign, exp, d, q * 128 + ((rem * 128) \div d), (rem * 128) % d, n - 1)
Div(a, b) ==
    IF ~Num(a) \/ ~Num(b) THEN NaN
    ELSE IF Abs(a) = Inf THEN (IF Abs(b) = Inf THEN NaN ELSE Sign(a) * Sign(b) * Inf)
    ELSE IF Abs(b) = Inf THEN 0
    ELSE IF b = 0 THEN (IF a = 0 THEN NaN ELSE Sign(a) * Inf)
    ELSE IF a = 0 THEN 0
    ELSE DivFrom(Sign(a) * Sign(b), NormExp(a) - NormExp(b) + 122, NormSig(b),
                 NormSig(a) \div NormSig(b), NormSig(a) % NormSig(b), 4)

\* the largest r in lo .. hi - 1 with r * r <= n, by bisection
RECURSIVE SqrtSearch(_, _, _)
SqrtSearch(n, lo, hi) ==
    IF lo + 1 >= hi THEN lo
    ELSE IF ((lo + hi) \div 2) * ((lo + hi) \div 2) <= n
         THEN SqrtSearch(n, (lo + hi) \div 2, hi)
         ELSE SqrtSearch(n, lo, (lo + hi) \div 2)

\* n more binary digits of a root r with remainder rem
RECURSIVE SqrtMore(_, _, _, _)
SqrtMore(r, rem, exp, n) ==
    IF n = 0 THEN Round(1, r, exp, rem # 0)
    ELSE IF 4 * rem >= 4 * r + 1 THEN SqrtMore(2 * r + 1, 4 * rem - (4 * r + 1), exp, n - 1)
    ELSE SqrtMore(2 * r, 4 * rem, exp, n - 1)
SqrtRoot(n, r, exp) == SqrtMore(r, n - r * r, exp, 11)
\* the root of m * 2^(e - 150), e even
SqrtEven(m, e) == SqrtRoot(m * 64, SqrtSearch(m * 64, 0, 46341), ((e + 64) \div 2) + 29)
Sqrt(a) ==
    IF ~Num(a) \/ a < 0 THEN NaN
    ELSE IF a = 0 \/ a = Inf THEN a
    ELSE IF ((NormExp(a) + 64) % 2) = 0 THEN SqrtEven(NormSig(a), NormExp(a))
    ELSE SqrtEven(2 * NormSig(a), NormExp(a) - 1)

\* the f32 of the literal n / 100
Hundredths(n) == Div(FromInt(n), FromInt(100))

One == FromInt(1)
Two == FromInt(2)
MinusOne == FromInt(-1)

---------------------------------------------------------------------------
(* Vec3                                                                    *)

Vec(x, y, z) == [x |-> x, y |-> y, z |-> z]
ZERO == Vec(0, 0, 0)

VAdd(u, v) == Vec(Add(u.x, v.x), Add(u.y, v.y), Add(u.z, v.z))
VSub(u, v) == Vec(Sub(u.x, v.x), Sub(u.y, v.y), Sub(u.z, v.z))
\* Vec3 * f32 and Vec3 / f32
VScale(u, k) == Vec(Mul(u.x, k), Mul(u.y, k), Mul(u.z, k))
VDivide(u, k) == Vec(Div(u.x, k), Div(u.y, k), Div(u.z, k))
\* Vec3 == Vec3
VEq(u, v) == Eq(u.x, v.x) /\ Eq(u.y, v.y) /\ Eq(u.z, v.z)

Dot(u, v) == Add(Add(Mul(u.x, v.x), Mul(u.y, v.y)), Mul(u.z, v.z))
Length(u) == Sqrt(Dot(u, u))
\* NormedVectorSpace::norm of a Vec3 is its length
Norm(u) == Length(u)
Distance(u, v) == Length(VSub(u, v))
\* Vec3::normalize: the vector times the reciprocal of its length
Normalize(u) == VScale(u, Div(One, Length(u)))

---------------------------------------------------------------------------
(* The constants of main.rs                                                *)

UNIVERSE_WIDTH == FromInt(200)
UNIVERSE_HEIGHT == FromInt(200)
WINDOW_WIDTH == FromInt(800)
WINDOW_HEIGHT == FromInt(400)
SCALE == FromInt(2)
G == Hundredths(-981)
FRICTION == Div(One, Two)

---------------------------------------------------------------------------
(* Ball                                                                    *)

\* Ball::new: fixed comes from Default, FALSE
NewBall(position, speed, acceleration, mass, size) ==
    [position |-> position, speed |-> speed, acceleration |-> acceleration,
     mass |-> mass, size |-> size, fixed |-> FALSE]

\* BallBundle::new: the initial transform of a ball
NewTransform(position) == Vec(Mul(position.x, SCALE), Mul(position.y, SCALE), 0)

---------------------------------------------------------------------------
(* update_balls: the body of the query loop for one ball                   *)

\* mutant: the speed test forgotten
RestDetectedLowOnly(ball) ==
    Lt(Sub(ball.position.y, Div(ball.size, Two)), Add(Div(Neg(WINDOW_HEIGHT), Two), One))

\* the condition of "If ball is too slow and too low, stop it"
RestDetected(ball) ==
    /\ Lt(Norm(ball.speed), One)
    /\ Lt(Sub(ball.position.y, Div(ball.size, Two)), Add(Div(Neg(WINDOW_HEIGHT), Two), One))

\* the two assignments of that branch; the loop body goes on after them
Rest(ball) ==
    IF RestDetected(ball) THEN [ball EXCEPT !.fixed = TRUE, !.speed = ZERO]
                          ELSE ball

Weight(ball) == VScale(Vec(0, G, 0), ball.mass)

Friction(ball) == VScale(VScale(ball.speed, MinusOne), FRICTION)

\* force = normal * (ball.mass * other_ball.mass / distance.powi(2))
ForceAt(ball, other_ball, distance) ==
    VScale(Normalize(VSub(other_ball.position, ball.position)),
           Div(Mul(ball.mass, other_ball.mass), Mul(distance, distance)))
Force(ball, other_ball) ==
    ForceAt(ball, other_ball, Div(Distance(ball.position, other_ball.position), SCALE))

\* what an other_ball at another position adds to the acceleration
Attraction(ball, other_ball) == VDivide(Force(ball, other_ball), ball.mass)

\* one pass of the attraction loop
Attracted(acceleration, ball, other_ball) ==
    IF VEq(ball.position, other_ball.position) THEN acceleration
    ELSE VAdd(acceleration, Attraction(ball, other_ball))

\* for other_ball in other_balls.iter(): others is the copy, a sequence of Ball
\* components, or what is left of it
RECURSIVE AttractionLoop(_, _, _)
AttractionLoop(acceleration, ball, others) ==
    IF others = << >> THEN acceleration
    ELSE AttractionLoop(Attracted(acceleration, ball, Head(others)), ball, Tail(others))

Acceleration(ball, others) ==
    AttractionLoop(VAdd(VAdd(ball.acceleration, Weight(ball)), Friction(ball)),
                   ball, others)

\* mutant: the position advanced with the speed of the previous tick
IntegrateOldSpeed(ball, others, dt) ==
    [ball EXCEPT !.speed = VAdd(ball.speed, VScale(Acceleration(ball, others), dt)),
                 !.position = VAdd(ball.position, VScale(ball.speed, dt))]

\* ball.speed += acceleration * dt; ball.position += speed * dt
Advance(ball, speed, dt) ==
    [ball EXCEPT !.speed = speed,
                 !.position = VAdd(ball.position, VScale(speed, dt))]
Integrate(ball, others, dt) ==
    Advance(ball, VAdd(ball.speed, VScale(Acceleration(ball, others), dt)), dt)

\* transform.translation = ball.position * SCALE
Translation(ball) == VScale(ball.position, SCALE)

\* mutant: the centre tested, without the half size
OutsideUniverseCentre(t, size) ==
    \/ Gt(t.x, Div(UNIVERSE_WIDTH, Two))
    \/ Lt(t.x, Div(Neg(UNIVERSE_WIDTH), Two))
    \/ Gt(t.y, Div(UNIVERSE_HEIGHT, Two))
    \/ Lt(t.y, Div(Neg(UNIVERSE_HEIGHT), Two))

\* mutant: the window's size taken for the universe's
OutsideWindow(t, size) ==
    \/ Gt(Sub(t.x, Div(size, Two)), Div(WINDOW_WIDTH, Two))
    \/ Lt(Add(t.x, Div(size, Two)), Div(Neg(WINDOW_WIDTH), Two))
    \/ Gt(Sub(t.y, Div(size, Two)), Div(WINDOW_HEIGHT, Two))
    \/ Lt(Add(t.y, Div(size, Two)), Div(Neg(WINDOW_HEIGHT), Two))

\* "If outside off the universe, destroy the ball"
OutsideUniverse(t, size) ==
    \/ Gt(Sub(t.x, Div(size, Two)), Div(UNIVERSE_WIDTH, Two))
    \/ Lt(Add(t.x, Div(size, Two)), Div(Neg(UNIVERSE_WIDTH), Two))
    \/ Gt(Sub(t.y, Div(size, Two)), Div(UNIVERSE_HEIGHT, Two))
    \/ Lt(Add(t.y, Div(size, Two)), Div(Neg(UNIVERSE_HEIGHT), Two))

BounceX(ball, t) ==
    IF Lt(Sub(t.x, Div(ball.size, Two)), Div(Neg(WINDOW_WIDTH), Two)) /\ Lt(ball.speed.x, 0)
    THEN [ball EXCEPT !.speed.x = Neg(ball.speed.x),
                      !.position.x = Add(Div(Neg(WINDOW_WIDTH), Two), Div(ball.size, Two))]
    ELSE IF Gt(Add(t.x, Div(ball.size, Two)), Div(WINDOW_WIDTH, Two)) /\ Gt(ball.speed.x, 0)
    THEN [ball EXCEPT !.speed.x = Neg(ball.speed.x),
                      !.position.x = Sub(Div(WINDOW_WIDTH, Two), Div(ball.size, Two))]
    ELSE ball

BounceY(ball, t) ==
    IF Lt(Sub(t.y, Div(ball.size, Two)), Div(Neg(WINDOW_HEIGHT), Two)) /\ Lt(ball.speed.y, 0)
    THEN [ball EXCEPT !.speed.y = Neg(ball.speed.y),
                      !.position.y = Add(Div(Neg(WINDOW_HEIGHT), Two), Div(ball.size, Two))]
    ELSE IF Gt(Add(t.y, Div(ball.size, Two)), Div(WINDOW_HEIGHT, Two)) /\ Gt(ball.speed.y, 0)
    THEN [ball EXCEPT !.speed.y = Neg(ball.speed.y),
                      !.position.y = Sub(Div(WINDOW_HEIGHT, Two), Div(ball.size, Two))]
    ELSE ball

\* the loop body after the bounce: the second "Update transform"
Bounced(ball) == [ball |-> ball, transform |-> Translation(ball), despawn |-> FALSE]

\* the loop body after the first "Update transform": t is the translation
LeaveAt(moved, t) ==
    IF OutsideUniverse(t, moved.size)
    THEN [ball |-> moved, transform |-> t, despawn |-> TRUE]
    ELSE Bounced(BounceY(BounceX(moved, t), t))

\* the loop body after the integration
Leave(moved) == LeaveAt(moved, Translation(moved))

\* mutant: no early continue for a fixed ball
UpdateBallFixedToo(ball, transform, others, dt) ==
    Leave(Integrate(Rest(ball), others, dt))

\* One pass of the loop body: the ball and translation it leaves, and whether it
\* queued a despawn of the entity.
UpdateBall(ball, transform, others, dt) ==
    IF ball.fixed
    THEN [ball |-> ball, transform |-> transform, despawn |-> FALSE]
    ELSE Leave(Integrate(Rest(ball), others, dt))

\* mutant: the attraction loop reading the components being mutated
AttractionSourceLive(snapshot, current) == current

\* The balls the attraction loop reads: the copy made before the loop, not the
\* components the loop is mutating.
AttractionSource(snapshot, current) == snapshot

\* balls.iter().map(|(_, ball, _)| ball.clone()).collect(): the Ball components in
\* the order q of the query
Copy(bs, q) == [i \in 1..Len(q) |-> bs[q[i]]]

\* The query loop over the entities of the sequence todo, what is left of the query
\* order q; r is what the loop body leaves for the entity e.
RECURSIVE UpdateLoop(_, _, _, _, _, _, _)
UpdateLoopWith(bs, ts, cmds, snapshot, q, rest, dt, e, r) ==
    UpdateLoop([bs EXCEPT ![e] = r.ball], [ts EXCEPT ![e] = r.transform],
               IF r.despawn THEN cmds \cup {e} ELSE cmds,
               snapshot, q, rest, dt)
UpdateLoopAt(bs, ts, cmds, snapshot, q, rest, dt, e) ==
    UpdateLoopWith(bs, ts, cmds, snapshot, q, rest, dt, e,
                   UpdateBall(bs[e], ts[e], AttractionSource(snapshot, Copy(bs, q)), dt))
UpdateLoop(bs, ts, cmds, snapshot, q, rest, dt) ==
    IF rest = << >> THEN [balls |-> bs, transforms |-> ts, commands |-> cmds]
    ELSE UpdateLoopAt(bs, ts, cmds, snapshot, q, Tail(rest), dt, Head(rest))

\* a queued despawn applied: the entities of cmds no longer exist
Despawn(f, cmds) == [e \in (DOMAIN f) \ cmds |-> f[e]]

\* The query order after a despawn: the entity's row is freed and the last row is
\* moved into it.
RowOf(q, e) == CHOOSE i \in 1..Len(q) : q[i] = e
SwapRemove(q, i) ==
    IF i = Len(q) THEN SubSeq(q, 1, Len(q) - 1)
    ELSE [SubSeq(q, 1, Len(q) - 1) EXCEPT ![i] = q[Len(q)]]
\* the despawns of queue applied one after the other
RECURSIVE DespawnRows(_, _)
DespawnRows(q, queue) ==
    IF queue = << >> THEN q
    ELSE DespawnRows(SwapRemove(q, RowOf(q, Head(queue))), Tail(queue))
\* the entities of cmds in the order the loop queued them, that of the query
Queue(q, cmds) == IF q = << >> THEN << >> ELSE SelectSeq(q, LAMBDA e : e \in cmds)

---------------------------------------------------------------------------
(* time_progress                                                           *)

Keys == {"Space", "KeyF", "ArrowRight"}
\* the key that starts and stops update_balls, for the specifications of the balls
BallKeys == {"Space"}

\* if keys.just_pressed(Space): toggle
ToggleOnSpace(gs, keys) ==
    IF "Space" \in keys
    THEN (IF gs = "Running" THEN "Paused" ELSE "Running")
    ELSE gs

\* mutant: the count-down no longer pauses the game when it reaches zero
CountDownPauseLate(gs, ff) ==
    IF gs = "Running" /\ ff > 0
    THEN [game_state |-> gs, frame_forward |-> ff - 1]
    ELSE [game_state |-> gs, frame_forward |-> ff]

\* "Update time before pause": count a pending step-forward frame down
CountDown(gs, ff) ==
    IF gs = "Running" /\ ff > 0
    THEN [game_state |-> IF ff - 1 = 0 THEN "Paused" ELSE gs, frame_forward |-> ff - 1]
    ELSE [game_state |-> gs, frame_forward |-> ff]

\* if keys.just_pressed(KeyF)
StepOne(c, keys) ==
    IF "KeyF" \in keys
    THEN [game_state |-> "Running", frame_forward |-> c.frame_forward + 1]
    ELSE c

\* if keys.just_pressed(ArrowRight)
StepSixty(c, keys) ==
    IF "ArrowRight" \in keys /\ c.game_state = "Paused"
    THEN [game_state |-> "Running", frame_forward |-> 60]
    ELSE c

\* "Update time": c is the state and the count the key handling leaves
UpdateTime(c, tp, dt) ==
    [game_state |-> c.game_state,
     time_progress |->
        IF c.game_state = "Running"
        THEN [time |-> Add(tp.time, dt), frame |-> tp.frame + 1,
              frame_forward |-> c.frame_forward]
        ELSE [time |-> tp.time, frame |-> tp.frame, frame_forward |-> c.frame_forward]]

\* the whole system: the resources it leaves
TimeProgress(gs, tp, keys, dt) ==
    UpdateTime(StepSixty(StepOne(CountDown(ToggleOnSpace(gs, keys), tp.frame_forward),
                                 keys), keys),
               tp, dt)

---------------------------------------------------------------------------
(* Bounds and inputs                                                       *)

NumBalls == 2        \* entities spawned (setup spawns 10)
MaxFrame == 2        \* frames counted by time_progress.frame, ball specifications
MaxOrderFrame == 1   \* the same, specification of the query loop's orders
MaxCtlFrame == 63    \* the same, controller specification

Systems == {"time_progress", "update_balls"}
\* the Update schedule: its systems, then the commands they queued
Schedule == Systems \cup {"apply_deferred"}

\* frame times: 0 and 0.02 s (about 1/60 s)
Deltas == {0, Hundredths(2)}
CtlDeltas == {Hundredths(2)}

\* a vector and a ball written in hundredths
HVec(x, y, z) == Vec(Hundredths(x), Hundredths(y), Hundredths(z))
HBall(position, speed, acceleration, mass, size) ==
    NewBall(position, speed, acceleration, Hundredths(mass), Hundredths(size))

\* random::<f32>(): the 24 high bits k of a random u32, times 2^-24, in [0, 1)
Random(k) == Div(FromInt(k), FromInt(Two24))

\* The ball setup spawns from five draws, in the order it makes them: position
\* ((r - 0.5) * UNIVERSE_WIDTH, (r - 0.5) * UNIVERSE_HEIGHT, 0.), speed
\* ((r - 0.5) * 1., (r - 0.5) * 1., 0.), no acceleration, mass r * 1.5 + 0.5, size 20.
SetupBall(px, py, sx, sy, m) ==
    NewBall(Vec(Mul(Sub(Random(px), Hundredths(50)), UNIVERSE_WIDTH),
                Mul(Sub(Random(py), Hundredths(50)), UNIVERSE_HEIGHT), 0),
            Vec(Mul(Sub(Random(sx), Hundredths(50)), One),
                Mul(Sub(Random(sy), Hundredths(50)), One), 0),
            ZERO,
            Add(Mul(Random(m), Hundredths(150)), Hundredths(50)),
            FromInt(20))

\* Draws of setup: a ball at the origin and one about 4 m from it, a ball whose
\* centre is outside the universe box by less than size/2, a ball from the lowest
\* draws and one from the highest.
SetupDraws ==
    { << 8388608, 8388608, 13421773, 11744051, 5592405 >>,
      << 8724152, 8388608, 3355443, 8388608, 11184811 >>,
      << 12750684, 4194304, 16609444, 0, 0 >>,
      << 0, 335544, 0, 0, 16665368 >>,
      << 16777215, 16777215, 16609444, 16609444, 5592405 >> }

\* Balls as setup spawns them
SetupBalls == { SetupBall(d[1], d[2], d[3], d[4], d[5]) : d \in SetupDraws }

\* Other balls Ball::new can build: large ones that reach the window edges and the
\* floor while still inside the universe box, a ball low enough to be stopped, a
\* ball with an acceleration of its own, a ball at the left edge whose speed after
\* a short tick is a thousandth, a ball that a short tick takes just past the
\* universe test.
OtherBalls ==
    { HBall(HVec(-6000, -1000, 0),  ZERO,              ZERO, 100, 40000),
      HBall(HVec(-11000, 5000, 0),  HVec(-200, 300, 0), ZERO, 100, 40000),
      HBall(HVec(11000, 0, 0),      HVec(200, 90, 0),  ZERO, 200, 40000),
      HBall(HVec(0, -19000, 0),     ZERO,              ZERO, 100, 2000),
      HBall(HVec(-300, 400, 0),     HVec(200, 0, 0),   HVec(50, 1000, 0), 200, 2000),
      HBall(HVec(-10300, -1000, 0), ZERO,              HVec(-10, 0, 0), 100, 40000),
      HBall(HVec(5499, 0, 0),       HVec(65, 0, 0),    ZERO, 100, 2000) }

BallInputs == SetupBalls \cup OtherBalls

\* the balls spawned after the first, where any balls are the first: the two balls
\* of setup near the origin, close enough to attract and be attracted, and the one
\* at the edge of the universe box
Companions ==
    { SetupBall(8388608, 8388608, 13421773, 11744051, 5592405),
      SetupBall(8724152, 8388608, 3355443, 8388608, 11184811),
      SetupBall(12750684, 4194304, 16609444, 0, 0) }

\* a ball of setup that leaves the universe in its first tick
CtlBalls == { SetupBall(16777215, 16777215, 16609444, 16609444, 5592405) }

EmptyBalls == << >>
NoStep == [n |-> 0, from |-> 0, quiet |-> 0]

---------------------------------------------------------------------------
(* Initial states: the resources main inserts and the entities setup spawns *)

InitWith(inputs, companions) ==
    /\ balls \in UNION { { b \in [1..k -> inputs \cup companions] :
                               /\ b[1] \in inputs
                               /\ \A e \in 2..k : b[e] \in companions } : k \in 1..NumBalls }
    /\ transforms = [e \in DOMAIN balls |-> NewTransform(balls[e].position)]
    /\ order = [i \in DOMAIN balls |-> i]
    /\ game_state = "Paused"
    /\ time_progress = [time |-> 0, frame |-> 0, frame_forward |-> 0]
    /\ delta = 0
    /\ ran = Schedule
    /\ other_balls = EmptyBalls
    /\ copied = << >>
    /\ todo = {}
    /\ commands = {}
    /\ iterating = FALSE
    /\ step = NoStep

Init == InitWith(BallInputs, Companions)
InitSetup == InitWith(SetupBalls, SetupBalls)
InitCtl == InitWith(CtlBalls, CtlBalls)

---------------------------------------------------------------------------
(* Actions                                                                 *)

\* The engine starts a frame: a new delta, nothing of the Update schedule has run,
\* the copy of an earlier run of update_balls is gone.
BeginFrame(deltas, maxFrame) ==
    /\ ran = Schedule
    /\ time_progress.frame < maxFrame
    /\ \E dt \in deltas : delta' = dt
    /\ ran' = {}
    /\ other_balls' = EmptyBalls
    /\ copied' = << >>
    /\ UNCHANGED << balls, transforms, order, game_state, time_progress,
                    todo, commands, iterating, step >>

\* history of the last step-forward request made alone from Paused with nothing pending
StepAfter(keys) ==
    IF keys \in {{"KeyF"}, {"ArrowRight"}}
       /\ game_state = "Paused" /\ time_progress.frame_forward = 0
    THEN [n |-> IF keys = {"KeyF"} THEN 1 ELSE 60,
          from |-> time_progress.frame, quiet |-> 0]
    ELSE IF keys = {} /\ step.n > 0
    THEN [step EXCEPT !.quiet = IF step.quiet > step.n THEN step.quiet ELSE step.quiet + 1]
    ELSE NoStep

\* The system time_progress runs, with the keys just pressed in this frame, some
\* of the pressable ones. It shares no data with the body of update_balls and may
\* run before, during or after it.
TimeProgressSys(pressable) ==
    /\ "time_progress" \notin ran
    /\ \E keys \in SUBSET pressable :
       \E r \in { TimeProgress(game_state, time_progress, keys, delta) } :
          /\ game_state' = r.game_state
          /\ time_progress' = r.time_progress
          /\ step' = StepAfter(keys)
    /\ ran' = ran \cup {"time_progress"}
    /\ UNCHANGED << balls, transforms, order, delta, other_balls, copied, todo, commands,
                    iterating >>

\* The system update_balls, from its run condition to its return: the despawns
\* it asked for stay queued in commands.
UpdateBallsSys ==
    /\ "update_balls" \notin ran
    /\ IF game_state = "Running"
       THEN \E r \in { UpdateLoop(balls, transforms, {}, Copy(balls, order), order, order,
                                  delta) } :
               /\ balls' = r.balls
               /\ transforms' = r.transforms
               /\ commands' = r.commands
               /\ other_balls' = Copy(balls, order)
               /\ copied' = order
       ELSE UNCHANGED << balls, transforms, commands, other_balls, copied >>
    /\ ran' = ran \cup {"update_balls"}
    /\ UNCHANGED << order, game_state, time_progress, delta, todo, iterating, step >>

\* update_balls step by step, the loop visiting the entities in any order; the copy
\* is in the order of the query.
UpdateBallsSkip ==
    /\ "update_balls" \notin ran
    /\ ~iterating
    /\ game_state # "Running"
    /\ ran' = ran \cup {"update_balls"}
    /\ UNCHANGED << balls, transforms, order, game_state, time_progress, delta,
                    other_balls, copied, todo, commands, iterating, step >>

UpdateBallsStart ==
    /\ "update_balls" \notin ran
    /\ ~iterating
    /\ game_state = "Running"
    /\ other_balls' = Copy(balls, order)
    /\ copied' = order
    /\ todo' = DOMAIN balls
    /\ commands' = {}
    /\ iterating' = TRUE
    /\ UNCHANGED << balls, transforms, order, game_state, time_progress, delta, ran, step >>

UpdateBallsIter ==
    /\ iterating
    /\ \E e \in todo :
       \E r \in { UpdateBall(balls[e], transforms[e],
                               AttractionSource(other_balls, Copy(balls, order)), delta) } :
          /\ balls' = [balls EXCEPT ![e] = r.ball]
          /\ transforms' = [transforms EXCEPT ![e] = r.transform]
          /\ commands' = IF r.despawn THEN commands \cup {e} ELSE commands
          /\ todo' = todo \ {e}
    /\ UNCHANGED << order, game_state, time_progress, delta, ran, other_balls, copied,
                    iterating, step >>

UpdateBallsEnd ==
    /\ iterating
    /\ todo = {}
    /\ iterating' = FALSE
    /\ ran' = ran \cup {"update_balls"}
    /\ UNCHANGED << balls, transforms, order, game_state, time_progress, delta,
                    other_balls, copied, todo, commands, step >>

\* The end of the Update schedule, after both systems: the queued commands are
\* applied, the entities they name are despawned.
ApplyDeferred ==
    /\ Systems \subseteq ran
    /\ "apply_deferred" \notin ran
    /\ balls' = Despawn(balls, commands)
    /\ transforms' = Despawn(transforms, commands)
    /\ order' = DespawnRows(order, Queue(order, commands))
    /\ commands' = {}
    /\ ran' = ran \cup {"apply_deferred"}
    /\ UNCHANGED << game_state, time_progress, delta, other_balls, copied, todo, iterating,
                    step >>

---------------------------------------------------------------------------
(* Specifications                                                          *)

\* any balls, the run of update_balls as one step, the game started and paused
\* with Space
Next ==
    \/ BeginFrame(Deltas, MaxFrame)
    \/ TimeProgressSys(BallKeys)
    \/ UpdateBallsSys
    \/ ApplyDeferred
Spec == Init /\ [][Next]_vars

\* the balls of setup, each spawned from draws of its own
SpecSetup == InitSetup /\ [][Next]_vars

\* any balls, the query loop of update_balls one entity at a time
NextOrder ==
    \/ BeginFrame(Deltas, MaxOrderFrame)
    \/ TimeProgressSys(BallKeys)
    \/ UpdateBallsSkip
    \/ UpdateBallsStart
    \/ UpdateBallsIter
    \/ UpdateBallsEnd
    \/ ApplyDeferred
SpecOrder == Init /\ [][NextOrder]_vars

\* the controller over enough frames for a 60-frame step
NextCtl ==
    \/ BeginFrame(CtlDeltas, MaxCtlFrame)
    \/ TimeProgressSys(Keys)
    \/ UpdateBallsSys
    \/ ApplyDeferred
SpecCtl == InitCtl /\ [][NextCtl]_vars

---------------------------------------------------------------------------
(* Claims about update_balls                                               *)

\* a step in which update_balls ran (its run condition held)
UpdateTick ==
    /\ "update_balls" \notin ran
    /\ "update_balls" \in ran'
    /\ game_state = "Running"

\* the step that applies the despawns a run of update_balls queued
ApplyStep ==
    /\ "apply_deferred" \notin ran
    /\ "apply_deferred" \in ran'

\* the state at the end of a frame in which update_balls ran, its copy of the balls
\* being other_balls
AfterTick == "apply_deferred" \in ran /\ copied # << >>

\* the Ball components as update_balls copied them, by entity
BeforeBalls ==
    [e \in {copied[i] : i \in 1..Len(copied)} |->
        other_balls[CHOOSE i \in 1..Len(copied) : copied[i] = e]]

\* the floor-and-speed condition of rest detection, from the constants:
\* |speed| < 1.0 and position.y - size/2 < -WINDOW_HEIGHT/2 + 1.0
SlowAndLow(ball) ==
    /\ Lt(Sqrt(Add(Add(Mul(ball.speed.x, ball.speed.x), Mul(ball.speed.y, ball.speed.y)),
                   Mul(ball.speed.z, ball.speed.z))), FromInt(1))
    /\ Lt(Sub(ball.position.y, Div(ball.size, FromInt(2))),
          Add(Div(Neg(WINDOW_HEIGHT), FromInt(2)), FromInt(1)))

\* translation t is more than size/2 beyond the universe box on an axis
WhollyOutside(t, size) ==
    \/ Gt(Sub(t.x, Div(size, FromInt(2))), Div(UNIVERSE_WIDTH, FromInt(2)))
    \/ Lt(Add(t.x, Div(size, FromInt(2))), Div(Neg(UNIVERSE_WIDTH), FromInt(2)))
    \/ Gt(Sub(t.y, Div(size, FromInt(2))), Div(UNIVERSE_HEIGHT, FromInt(2)))
    \/ Lt(Add(t.y, Div(size, FromInt(2))), Div(Neg(UNIVERSE_HEIGHT), FromInt(2)))

\* translation t is beyond the universe box on an axis
CentreOutside(t) ==
    \/ Gt(t.x, Div(UNIVERSE_WIDTH, FromInt(2)))
    \/ Lt(t.x, Div(Neg(UNIVERSE_WIDTH), FromInt(2)))
    \/ Gt(t.y, Div(UNIVERSE_HEIGHT, FromInt(2)))
    \/ Lt(t.y, Div(Neg(UNIVERSE_HEIGHT), FromInt(2)))

\* the edge of a body of that size at translation t is beyond a window boundary
BeyondLeft(t, size) == Lt(Sub(t.x, Div(size, FromInt(2))), Div(Neg(WINDOW_WIDTH), FromInt(2)))
BeyondRight(t, size) == Gt(Add(t.x, Div(size, FromInt(2))), Div(WINDOW_WIDTH, FromInt(2)))
BeyondFloor(t, size) == Lt(Sub(t.y, Div(size, FromInt(2))), Div(Neg(WINDOW_HEIGHT), FromInt(2)))
BeyondTop(t, size) == Gt(Add(t.y, Div(size, FromInt(2))), Div(WINDOW_HEIGHT, FromInt(2)))

\* C1 (as claimed): a non-fixed body that enters a tick slow and low ends the tick
\* fixed, with zero speed and an unchanged position and translation and no despawn
\* queued, and a fixed body is fixed with zero speed ever after.
C1_RestStopsBall ==
    [][/\ UpdateTick =>
            \A e \in DOMAIN balls :
               (~balls[e].fixed /\ SlowAndLow(balls[e])) =>
                  /\ e \notin commands'
                  /\ balls'[e] = [balls[e] EXCEPT !.fixed = TRUE, !.speed = ZERO]
                  /\ transforms'[e] = transforms[e]
       /\ \A e \in DOMAIN balls \cap DOMAIN balls' :
             balls[e].fixed => balls'[e].fixed /\ balls'[e].speed = ZERO]_vars

\* C2: a run of update_balls leaves a body that is fixed when it starts with the same
\* Ball component and the same translation and queues no despawn of it, and the
\* application of the queued despawns that follows keeps the body, unchanged.
C2_FixedUnchanged ==
    [][/\ UpdateTick =>
            \A e \in DOMAIN balls :
               balls[e].fixed =>
                  /\ balls'[e] = balls[e]
                  /\ transforms'[e] = transforms[e]
                  /\ e \notin commands'
       /\ ApplyStep =>
            \A e \in DOMAIN BeforeBalls :
               BeforeBalls[e].fixed =>
                  /\ e \in DOMAIN balls'
                  /\ balls'[e] = BeforeBalls[e]
                  /\ transforms'[e] = transforms[e]]_vars

\* a tick with dt > 0 has run over a body that was already fixed when it started,
\* and its despawns are applied
C2_Witness ==
    /\ AfterTick
    /\ Gt(delta, 0)
    /\ \E e \in DOMAIN BeforeBalls : BeforeBalls[e].fixed /\ e \in DOMAIN balls

\* the translation update_balls computes for a body not fixed at the start of the tick
MovedTranslation(e) == Translation(Integrate(Rest(balls[e]), Copy(balls, order), delta))

\* the entities that exist after a step are those that existed less the despawns
\* applied in it
LiveSetFollowsCommands ==
    DOMAIN balls' = IF ApplyStep THEN (DOMAIN balls) \ commands ELSE DOMAIN balls

\* C3 (as claimed): a body whose scaled position is outside the universe box on an
\* axis in a tick is despawned by the tick: queued by update_balls, gone from the
\* live set when the frame's commands are applied.
C3_DespawnWhenCentreOutside ==
    [][/\ UpdateTick =>
            \A e \in DOMAIN balls :
               CentreOutside(IF balls[e].fixed THEN Translation(balls[e])
                                               ELSE MovedTranslation(e))
                  => e \in commands'
       /\ LiveSetFollowsCommands]_vars

\* C3 (amended): a body not fixed at the start of a tick is despawned by the tick
\* exactly when its integrated scaled position is more than size/2 outside the
\* universe box on an axis; a body fixed at the start is never despawned. The
\* despawn is queued by update_balls and the body is gone from the live set when the
\* frame's commands are applied.
C3_DespawnWhenWhollyOutside ==
    [][/\ UpdateTick =>
            \A e \in DOMAIN balls :
               e \in commands' <=>
                  /\ ~balls[e].fixed
                  /\ WhollyOutside(MovedTranslation(e), balls[e].size)
       /\ LiveSetFollowsCommands]_vars

\* a tick has despawned one body, more than size/2 beyond the right edge of the
\* box, and kept another
C3_Witness ==
    /\ AfterTick
    /\ \E e \in DOMAIN BeforeBalls :
          /\ e \notin DOMAIN balls
          /\ Gt(Sub(Mul(BeforeBalls[e].position.x, SCALE),
                    Div(BeforeBalls[e].size, FromInt(2))),
                Div(UNIVERSE_WIDTH, FromInt(2)))
    /\ \E e \in DOMAIN BeforeBalls : e \in DOMAIN balls

\* C4 (as claimed): a surviving body whose scaled edge crossed a window boundary moving
\* outward ends the tick with that speed component negated and its scaled edge not
\* beyond that boundary.
C4_BounceKeepsInsideWindow ==
    [][UpdateTick =>
          \A e \in (DOMAIN balls) \ commands' :
             LET m == Integrate(Rest(balls[e]), Copy(balls, order), delta)
                 t == Translation(m)
                 size == m.size
             IN  ~balls[e].fixed =>
                   /\ (BeyondLeft(t, size) /\ Lt(m.speed.x, 0)) =>
                         /\ balls'[e].speed.x = Neg(m.speed.x)
                         /\ ~BeyondLeft(transforms'[e], size)
                   /\ (BeyondRight(t, size) /\ Gt(m.speed.x, 0)) =>
                         /\ balls'[e].speed.x = Neg(m.speed.x)
                         /\ ~BeyondRight(transforms'[e], size)
                   /\ (BeyondFloor(t, size) /\ Lt(m.speed.y, 0)) =>
                         /\ balls'[e].speed.y = Neg(m.speed.y)
                         /\ ~BeyondFloor(transforms'[e], size)
                   /\ (BeyondTop(t, size) /\ Gt(m.speed.y, 0)) =>
                         /\ balls'[e].speed.y = Neg(m.speed.y)
                         /\ ~BeyondTop(transforms'[e], size)]_vars

\* C5: per body, a step leaves a despawned body despawned and a fixed body fixed;
\* a body becomes fixed only in a tick it entered slow and low; a despawn of it is
\* queued only in a tick whose universe test its integrated position fails; and it
\* leaves the live set only when a despawn queued for it is applied.
C5_Lifecycle ==
    [][/\ DOMAIN balls' \subseteq DOMAIN balls
       /\ DOMAIN transforms' = DOMAIN balls'
       /\ {order'[i] : i \in 1..Len(order')} = DOMAIN balls'
       /\ Len(order') = Cardinality(DOMAIN balls')
       /\ \A e \in DOMAIN balls :
             /\ (e \in DOMAIN balls' /\ balls[e].fixed) => balls'[e].fixed
             /\ (e \in DOMAIN balls' /\ ~balls[e].fixed /\ balls'[e].fixed) =>
                   UpdateTick /\ SlowAndLow(balls[e])
             /\ (e \in commands' /\ e \notin commands) =>
                   /\ UpdateTick
                   /\ WhollyOutside(MovedTranslation(e), balls[e].size)
             /\ e \notin DOMAIN balls' => ApplyStep /\ e \in commands]_vars

\* a tick has turned a free body into a fixed one
C5_Witness ==
    /\ AfterTick
    /\ \E e \in DOMAIN BeforeBalls \cap DOMAIN balls :
          ~BeforeBalls[e].fixed /\ balls[e].fixed

\* C6: while the query loop runs, in whatever order it visits the entities, every
\* visited body holds what the loop body makes of its own state at the start of the
\* tick and of the copy of the balls taken then, every body not yet visited is
\* untouched, and when all are visited the balls and the queued despawns are those of
\* the loop run in the order of the query.
C6_OrderIndependent ==
    iterating =>
       /\ \A e \in (DOMAIN BeforeBalls) \ todo :
             LET r == UpdateBall(BeforeBalls[e], transforms[e], other_balls, delta)
             IN  /\ balls[e] = r.ball
                 /\ transforms[e] = r.transform
                 /\ (e \in commands) = r.despawn
       /\ \A e \in todo : balls[e] = BeforeBalls[e]
       /\ todo = {} =>
             LET r == UpdateLoop(BeforeBalls, transforms, {}, other_balls,
                                 copied, copied, delta)
             IN  balls = r.balls /\ commands = r.commands

\* the loop has visited two bodies at different positions, which attract each other,
\* and both have moved
C6_Witness ==
    /\ iterating
    /\ todo = {}
    /\ \E e, f \in DOMAIN BeforeBalls :
          /\ e # f
          /\ BeforeBalls[e].position # BeforeBalls[f].position
          /\ Attraction(BeforeBalls[e], BeforeBalls[f]) # ZERO
          /\ balls[e].position # BeforeBalls[e].position
          /\ balls[f].position # BeforeBalls[f].position

\* no other body at a different position
Lone(bs, e) == \A f \in DOMAIN bs : bs[f].position = bs[e].position

\* the integration step the claim states, with the gravity term given
EulerStep(ball, gravity, dt) ==
    LET a == VSub(VAdd(gravity, ball.acceleration), VScale(ball.speed, FRICTION))
        v == VAdd(ball.speed, VScale(a, dt))
    IN  [speed |-> v, position |-> VAdd(ball.position, VScale(v, dt))]

\* no window-edge test of the bounce holds for speed v at position p
NoBounce(v, p, size) ==
    /\ ~(BeyondLeft(VScale(p, SCALE), size) /\ Lt(v.x, 0))
    /\ ~(BeyondRight(VScale(p, SCALE), size) /\ Gt(v.x, 0))
    /\ ~(BeyondFloor(VScale(p, SCALE), size) /\ Lt(v.y, 0))
    /\ ~(BeyondTop(VScale(p, SCALE), size) /\ Gt(v.y, 0))

\* the case of the claim: a lone, non-fixed body that the tick does not stop, and
\* that step s would not bounce
LoneFreeBody(e, s) ==
    /\ Lone(balls, e)
    /\ ~balls[e].fixed
    /\ ~SlowAndLow(balls[e])
    /\ NoBounce(s.speed, s.position, balls[e].size)

GravityTimesMass(ball) == Vec(0, Mul(G, ball.mass), 0)

\* C7 (as claimed): v' = v + ((0,G,0) + externalAcceleration - FRICTION*v) * dt and
\* p' = p + v' * dt for a lone body that a tick keeps, whatever its mass.
C7_EulerWithG ==
    [][UpdateTick =>
          \A e \in (DOMAIN balls) \ commands' :
             LET s == EulerStep(balls[e], Vec(0, G, 0), delta)
             IN  LoneFreeBody(e, s) =>
                    /\ balls'[e].speed = s.speed
                    /\ balls'[e].position = s.position]_vars

\* C7 (amended): v' = v + ((0,G*mass,0) + externalAcceleration - FRICTION*v) * dt and
\* p' = p + v' * dt for a lone body that a tick keeps, each operation rounded to f32.
C7_EulerWithGTimesMass ==
    [][UpdateTick =>
          \A e \in (DOMAIN balls) \ commands' :
             LET s == EulerStep(balls[e], GravityTimesMass(balls[e]), delta)
             IN  LoneFreeBody(e, s) =>
                    /\ balls'[e].speed = s.speed
                    /\ balls'[e].position = s.position]_vars

\* a tick with dt > 0 has integrated a lone body of mass other than 1 that has
\* an acceleration of its own, without stopping, despawning or bouncing it
C7_Witness ==
    /\ AfterTick
    /\ Gt(delta, 0)
    /\ \E e \in DOMAIN BeforeBalls \cap DOMAIN balls :
          LET b == BeforeBalls[e]
              s == EulerStep(b, GravityTimesMass(b), delta)
          IN  /\ Lone(BeforeBalls, e)
              /\ ~b.fixed /\ ~SlowAndLow(b)
              /\ b.mass # FromInt(1) /\ b.acceleration # ZERO
              /\ NoBounce(s.speed, s.position, b.size)
              /\ balls[e].position # b.position

---------------------------------------------------------------------------
(* Claims about time_progress                                              *)

\* C8: after a step request of n frames (KeyF: 1, ArrowRight: 60) made alone from
\* Paused with nothing pending, and q later ticks without a key: while q < n the game
\* runs and frame has advanced by q + 1; from q = n on the game is Paused with
\* frame_forward = 0 and frame advanced by exactly n.
C8_StepForward ==
    step.n > 0 =>
       IF step.quiet < step.n
       THEN /\ game_state = "Running"
            /\ time_progress.frame = step.from + step.quiet + 1
            /\ time_progress.frame_forward = step.n - step.quiet
       ELSE /\ game_state = "Paused"
            /\ time_progress.frame_forward = 0
            /\ time_progress.frame = step.from + step.n

\* a 60-frame step has run out and the game has stayed paused a tick longer
C8_Witness ==
    /\ step.n = 60
    /\ step.quiet > 60
    /\ game_state = "Paused"

\* C9 (as claimed): whenever the game is Paused, no step-forward frame is pending.
C9_PausedNothingPending ==
    game_state = "Paused" => time_progress.frame_forward = 0

---------------------------------------------------------------------------
(* Claim about the balls of setup                                          *)

\* C10: with the balls of setup no body is ever fixed; a body that a tick has kept
\* has its scaled position within the universe box enlarged by size/2, is above the
\* rest-detection floor and within all four window edges; and a tick leaves every
\* body it keeps as integrated, neither stopped nor bounced.
C10_SetupOnlyDespawns ==
    /\ [](\A e \in DOMAIN balls :
            /\ ~balls[e].fixed
            /\ (e \in DOMAIN BeforeBalls /\ e \notin commands) =>
                  /\ transforms[e] = Translation(balls[e])
                  /\ ~WhollyOutside(transforms[e], balls[e].size)
                  /\ ~Lt(Sub(balls[e].position.y, Div(balls[e].size, FromInt(2))),
                         Add(Div(Neg(WINDOW_HEIGHT), FromInt(2)), FromInt(1)))
                  /\ ~BeyondLeft(transforms[e], balls[e].size)
                  /\ ~BeyondRight(transforms[e], balls[e].size)
                  /\ ~BeyondFloor(transforms[e], balls[e].size)
                  /\ ~BeyondTop(transforms[e], balls[e].size))
    /\ [][UpdateTick =>
            \A e \in (DOMAIN balls) \ commands' :
               balls'[e] = Integrate(balls[e], Copy(balls, order), delta)]_vars

\* a tick with dt > 0 has moved a ball of setup and kept it, and despawned another
C10_Witness ==
    /\ AfterTick
    /\ Gt(delta, 0)
    /\ \E e \in DOMAIN BeforeBalls \cap DOMAIN balls :
          balls[e].position # BeforeBalls[e].position
    /\ \E e \in DOMAIN BeforeBalls : e \notin DOMAIN balls
=============================================================================
